---- MODULE Spec2Model ----
(***************************************************************************)
(* The itinerary map dialog of the trip planner (ItineraryMap.tsx): the    *)
(* location resolver and marker loop of one render pass, and the life      *)
(* cycle of the Leaflet map instance (script load, settle timer, effect    *)
(* cleanups).                                                              *)
(*                                                                         *)
(* Strings are sequences of one-character strings, so that toLowerCase and *)
(* includes are computed rather than assumed.  Coordinates are integers in *)
(* units of 0.0001 degree (73.0169 is 730169).                             *)
(***************************************************************************)
EXTENDS Integers, Sequences, FiniteSets, TLC

\* Largest number of days in an enumerated itinerary.
MaxDays == 2

\* Largest total number of activities in an enumerated itinerary.
MaxActs == 2

(***************************************************************************)
(* JavaScript strings                                                      *)
(***************************************************************************)
UpperCase ==
    <<"A", "B", "C", "D", "E", "F", "G", "H", "I", "J", "K", "L", "M",
      "N", "O", "P", "Q", "R", "S", "T", "U", "V", "W", "X", "Y", "Z">>

LowerCase ==
    <<"a", "b", "c", "d", "e", "f", "g", "h", "i", "j", "k", "l", "m",
      "n", "o", "p", "q", "r", "s", "t", "u", "v", "w", "x", "y", "z">>

\* The lower-case letter of every upper-case letter.
LowerCaseOf ==
    [c \in {UpperCase[i] : i \in 1..Len(UpperCase)} |->
        LowerCase[CHOOSE i \in 1..Len(UpperCase) : UpperCase[i] = c]]

\* String.prototype.toLowerCase on one character.
toLowerChar(c) ==
    IF c \in DOMAIN LowerCaseOf THEN LowerCaseOf[c] ELSE c

\* String.prototype.toLowerCase.
toLowerCase(s) ==
    [i \in 1..Len(s) |-> toLowerChar(s[i])]

\* String.prototype.includes: t occurs in s at some offset (the empty
\* string occurs in every string).
includes(s, t) ==
    \E i \in 0..(Len(s) - Len(t)) : SubSeq(s, i + 1, i + Len(t)) = t

(***************************************************************************)
(* The coordinate table                                                    *)
(***************************************************************************)
\* A [lon, lat] pair of the table or of the fallback.
Coordinate(lon, lat) ==
    [kind |-> "coordinate", lon |-> lon, lat |-> lat]

\* The result of reading a property the object does not have.
Undefined ==
    [kind |-> "undefined", lon |-> 0, lat |-> 0]

\* A member inherited from Object.prototype (a function or an object): it
\* is truthy, and its [0] and [1] are undefined.
Inherited ==
    [kind |-> "inherited", lon |-> 0, lat |-> 0]

\* The object literal, in insertion order (the order of Object.keys).
locationCoordinates == <<
    [key |-> <<"V", "a", "s", "h", "i">>,
     value |-> Coordinate(730071, 190754)],
    [key |-> <<"B", "e", "l", "a", "p", "u", "r">>,
     value |-> Coordinate(730358, 190235)],
    [key |-> <<"K", "h", "a", "r", "g", "h", "a", "r">>,
     value |-> Coordinate(730785, 190477)],
    [key |-> <<"N", "e", "r", "u", "l">>,
     value |-> Coordinate(730157, 190377)],
    [key |-> <<"P", "a", "n", "v", "e", "l">>,
     value |-> Coordinate(731088, 189894)],
    [key |-> <<"A", "i", "r", "o", "l", "i">>,
     value |-> Coordinate(729985, 191557)],
    [key |-> <<"G", "h", "a", "n", "s", "o", "l", "i">>,
     value |-> Coordinate(730085, 191162)],
    [key |-> <<"K", "o", "p", "a", "r", " ", "K", "h", "a", "i", "r", "a", "n", "e">>,
     value |-> Coordinate(730071, 191050)],
    [key |-> <<"S", "a", "n", "p", "a", "d", "a">>,
     value |-> Coordinate(730119, 190506)],
    [key |-> <<"T", "u", "r", "b", "h", "e">>,
     value |-> Coordinate(730224, 190897)],
    [key |-> <<"S", "e", "a", "w", "o", "o", "d", "s">>,
     value |-> Coordinate(730185, 190142)],
    [key |-> <<"D", "Y", " ", "P", "a", "t", "i", "l", " ", "S", "t", "a", "d", "i", "u", "m">>,
     value |-> Coordinate(730282, 190446)],
    [key |-> <<"C", "e", "n", "t", "r", "a", "l", " ", "P", "a", "r", "k">>,
     value |-> Coordinate(730169, 190343)],
    [key |-> <<"I", "n", "o", "r", "b", "i", "t", " ", "M", "a", "l", "l">>,
     value |-> Coordinate(730169, 190343)],
    [key |-> <<"W", "o", "n", "d", "e", "r", " ", "P", "a", "r", "k">>,
     value |-> Coordinate(730074, 190137)],
    [key |-> <<"M", "i", "n", "i", " ", "S", "e", "a", "s", "h", "o", "r", "e">>,
     value |-> Coordinate(730215, 190240)],
    [key |-> <<"A", "k", "s", "h", "a", "r", " ", "D", "h", "a", "a", "m">>,
     value |-> Coordinate(729962, 191030)],
    [key |-> <<"W", "o", "n", "d", "e", "r", "s", " ", "P", "a", "r", "k">>,
     value |-> Coordinate(730074, 190137)],
    [key |-> <<"A", "P", "M", "C", " ", "M", "a", "r", "k", "e", "t">>,
     value |-> Coordinate(730166, 190680)],
    [key |-> <<"P", "a", "r", "s", "i", "k", " ", "H", "i", "l", "l">>,
     value |-> Coordinate(730299, 190303)],
    [key |-> <<"P", "a", "l", "m", " ", "B", "e", "a", "c", "h", " ", "R", "o", "a", "d">>,
     value |-> Coordinate(730222, 190037)],
    [key |-> <<"J", "e", "w", "e", "l", " ", "o", "f", " ", "N", "a", "v", "i", " ", "M", "u", "m", "b", "a", "i">>,
     value |-> Coordinate(730173, 190340)],
    [key |-> <<"S", "a", "g", "a", "r", " ", "V", "i", "h", "a", "r">>,
     value |-> Coordinate(730083, 190633)],
    [key |-> <<"G", "o", "l", "f", " ", "C", "o", "u", "r", "s", "e">>,
     value |-> Coordinate(730081, 190157)],
    [key |-> <<"N", "e", "r", "u", "l", " ", "B", "a", "l", "a", "j", "i", " ", "T", "e", "m", "p", "l", "e">>,
     value |-> Coordinate(730206, 190377)],
    [key |-> <<"F", "l", "a", "m", "i", "n", "g", "o", " ", "S", "a", "n", "c", "t", "u", "a", "r", "y">>,
     value |-> Coordinate(730165, 190380)],
    [key |-> <<"S", "c", "i", "e", "n", "c", "e", " ", "C", "e", "n", "t", "r", "e">>,
     value |-> Coordinate(730174, 190390)],
    [key |-> <<"R", "a", "g", "h", "u", "l", "e", "e", "l", "a", " ", "M", "a", "l", "l">>,
     value |-> Coordinate(730077, 190720)],
    [key |-> <<"B", "e", "l", "a", "p", "u", "r", " ", "F", "o", "r", "t">>,
     value |-> Coordinate(730358, 190235)]
>>

\* Object.keys(locationCoordinates), as a set.
TableKeys ==
    {locationCoordinates[i].key : i \in 1..Len(locationCoordinates)}

\* Names every object literal inherits from Object.prototype.
ObjectPrototypeKeys == {
    <<"c", "o", "n", "s", "t", "r", "u", "c", "t", "o", "r">>,
    <<"t", "o", "S", "t", "r", "i", "n", "g">>,
    <<"v", "a", "l", "u", "e", "O", "f">>,
    <<"h", "a", "s", "O", "w", "n", "P", "r", "o", "p", "e", "r", "t", "y">>,
    <<"_", "_", "p", "r", "o", "t", "o", "_", "_">>
}

\* locationCoordinates[name]: an own property, else an inherited one, else
\* undefined.
PropertyLookup(name) ==
    IF \E i \in 1..Len(locationCoordinates) : locationCoordinates[i].key = name
    THEN locationCoordinates[CHOOSE i \in 1..Len(locationCoordinates) :
                                 locationCoordinates[i].key = name].value
    ELSE IF name \in ObjectPrototypeKeys THEN Inherited
    ELSE Undefined

(***************************************************************************)
(* Location strings of the enumerated itineraries                          *)
(***************************************************************************)
LocVashi ==
    <<"V", "a", "s", "h", "i">>

LocVashiLower ==
    <<"v", "a", "s", "h", "i">>

LocEmpty ==
    <<>>

LocSpace ==
    <<" ">>

LocUnknown ==
    <<"Z", "z">>

LocConstructor ==
    <<"c", "o", "n", "s", "t", "r", "u", "c", "t", "o", "r">>

LocTemple ==
    <<"N", "e", "r", "u", "l", " ", "B", "a", "l", "a", "j", "i", " ", "T", "e", "m", "p", "l", "e">>

LocTempleLower ==
    <<"n", "e", "r", "u", "l", " ", "b", "a", "l", "a", "j", "i", " ", "t", "e", "m", "p", "l", "e">>

LocPark ==
    <<"p", "a", "r", "k">>

Locations ==
    {LocVashi, LocVashiLower, LocEmpty, LocSpace, LocUnknown, LocConstructor, LocTemple, LocTempleLower, LocPark}


(***************************************************************************)
(* Itineraries                                                             *)
(***************************************************************************)
\* Values of ItineraryDay.day in the enumerated itineraries: the first two
\* days, and the first day past the palette.
DayNumbers == {1, 2, 8}

\* An ItineraryActivity; only its location decides the marker's position.
Activity(location) ==
    [location |-> location]

\* An ItineraryDay.
ItineraryDay(day, activities) ==
    [day |-> day, activities |-> activities]

\* Sum of the entries of a sequence of numbers.
RECURSIVE Sum(_)
Sum(s) ==
    IF Len(s) = 0 THEN 0 ELSE s[1] + Sum(Tail(s))

\* Position in the flat list of activities of the j-th activity of day i.
FlatIndex(lens, i, j) ==
    Sum(SubSeq(lens, 1, i - 1)) + j

\* The itinerary with the given day numbers, activities per day and
\* locations (one per activity, in traversal order).
BuildItinerary(days, lens, locs) ==
    [i \in 1..Len(days) |->
        ItineraryDay(days[i],
            [j \in 1..lens[i] |-> Activity(locs[FlatIndex(lens, i, j)])])]

\* Day numbers of an itinerary: distinct and ascending.
DaySequences ==
    {days \in UNION {[1..n -> DayNumbers] : n \in 0..MaxDays} :
        \A i \in 1..(Len(days) - 1) : days[i] < days[i + 1]}

\* Every itinerary of at most MaxDays days and MaxActs activities.
AllItineraries ==
    UNION {UNION {{BuildItinerary(days, lens, locs) :
                      locs \in [1..Sum(lens) -> Locations]} :
                  lens \in {l \in [1..Len(days) -> 0..MaxActs] :
                               Sum(l) <= MaxActs}} :
           days \in DaySequences}

\* The itineraries the dialog is given in the life-cycle specification:
\* none, two days of which the second is unknown, and one whose second
\* location names a member of Object.prototype.
Itineraries ==
    {<<>>,
     <<ItineraryDay(1, <<Activity(LocVashi)>>),
       ItineraryDay(2, <<Activity(LocUnknown)>>)>>,
     <<ItineraryDay(1, <<Activity(LocVashi), Activity(LocConstructor)>>)>>}

(***************************************************************************)
(* The location resolver                                                   *)
(***************************************************************************)
\* The default center, [19.0330, 73.0169].
DefaultLon == 730169

DefaultLat == 190330

\* Math.random() is drawn from a grid of RandomGrid values k / RandomGrid,
\* k in 0..RandomGrid-1; one step of the grid is 0.0001 degree of offset.
RandomGrid == 200

\* The draws of Math.random() that are enumerated: the least, the middle
\* and the greatest value of the grid.
MathRandom == {0, RandomGrid \div 2, RandomGrid - 1}

\* randomOffset = (Math.random() - 0.5) * 0.02, for Math.random() = r / 200.
randomOffset(r) ==
    ((2 * r - RandomGrid) * 200) \div (2 * RandomGrid)

\* Variant of PartialMatch that looks for the key inside the location only.
PartialMatchOneWay(location, key) ==
    includes(toLowerCase(location), toLowerCase(key))

\* The predicate handed to find: either string contains the other,
\* ignoring case.
PartialMatch(location, key) ==
    \/ includes(toLowerCase(location), toLowerCase(key))
    \/ includes(toLowerCase(key), toLowerCase(location))

\* Object.keys(locationCoordinates).find(...) from position i on: the
\* position of the first key that satisfies the predicate, 0 for undefined.
RECURSIVE find(_, _)
find(location, i) ==
    IF i > Len(locationCoordinates) THEN 0
    ELSE IF PartialMatch(location, locationCoordinates[i].key) THEN i
    ELSE find(location, i + 1)

\* The value assigned to coordinates for one activity, and the branch that
\* assigned it.  rnd holds the two draws of Math.random() the fallback
\* makes.
ResolveCoordinates(location, rnd) ==
    IF PropertyLookup(location).kind # "undefined"
    THEN [how |-> "exact", coordinates |-> PropertyLookup(location)]
    ELSE LET locationKey == find(location, 1)
         IN  IF locationKey # 0
             THEN [how |-> "partial",
                   coordinates |-> locationCoordinates[locationKey].value]
             ELSE [how |-> "fallback",
                   coordinates |->
                       Coordinate(DefaultLon + randomOffset(rnd[1]),
                                  DefaultLat + randomOffset(rnd[2]))]

(***************************************************************************)
(* The marker loop                                                         *)
(***************************************************************************)
dayColors ==
    <<"#3B82F6", "#10B981", "#F59E0B", "#EF4444", "#8B5CF6", "#EC4899",
      "#06B6D4">>

\* The JavaScript remainder: the sign of the result is that of a.
JsRem(a, n) ==
    IF a >= 0 THEN a % n ELSE 0 - ((0 - a) % n)

\* Variant of dayColor that indexes the palette with the day itself.
dayColorOffByOne(day) ==
    dayColors[JsRem(day, Len(dayColors)) + 1]

\* dayColors[(day.day - 1) % dayColors.length]; an index outside the array
\* reads undefined.
dayColor(day) ==
    LET index == JsRem(day - 1, Len(dayColors))
    IN  IF index \in 0..(Len(dayColors) - 1)
        THEN dayColors[index + 1]
        ELSE "undefined"

\* The order in which the nested forEach visits the activities.
RECURSIVE Traversal(_)
Traversal(days) ==
    IF Len(days) = 0 THEN <<>>
    ELSE [j \in 1..Len(days[1].activities) |->
             [day |-> days[1].day, activity |-> days[1].activities[j]]]
         \o Traversal(Tail(days))

\* The number of activities of an itinerary that take the fallback, each of
\* which draws Math.random() twice.
NumFallback(days) ==
    Cardinality({i \in 1..Len(Traversal(days)) :
        ResolveCoordinates(Traversal(days)[i].activity.location,
                           <<0, 0>>).how = "fallback"})

\* The marker built for one activity.
Marker(day, activity, resolved) ==
    [day |-> day,
     color |-> dayColor(day),
     location |-> activity.location,
     how |-> resolved.how,
     lon |-> resolved.coordinates.lon,
     lat |-> resolved.coordinates.lat]

\* The two forEach loops over the activities still to visit.  rnds holds the
\* draws of Math.random() still to come, a pair per fallback.  The result
\* is the markers pushed, the value coordinates took at each activity
\* visited, and whether L.marker threw: Leaflet 1.9.4 throws "Invalid
\* LatLng object" for [undefined, undefined], which ends both loops.
RECURSIVE MarkerLoop(_, _, _)
MarkerLoop(todo, rnds, acc) ==
    IF Len(todo) = 0 THEN acc
    ELSE LET resolved == ResolveCoordinates(todo[1].activity.location,
                             IF Len(rnds) = 0 THEN <<0, 0>> ELSE rnds[1])
             rest == IF resolved.how = "fallback" /\ Len(rnds) > 0
                     THEN Tail(rnds) ELSE rnds
             seen == [acc EXCEPT !.coordinates =
                                     Append(@, resolved.coordinates)]
         IN  IF resolved.coordinates.kind = "undefined"
             THEN MarkerLoop(Tail(todo), rest, seen)
             ELSE IF resolved.coordinates.kind # "coordinate"
             THEN [seen EXCEPT !.threw = TRUE]
             ELSE MarkerLoop(Tail(todo), rest,
                      [seen EXCEPT !.markers =
                          Append(@, Marker(todo[1].day, todo[1].activity,
                                           resolved))])

\* The view after the marker loop: fitBounds is called when markers is not
\* empty.
FitBounds(markers) ==
    IF Len(markers) > 0 THEN "fitBounds" ELSE "default"

(***************************************************************************)
(* The component                                                           *)
(***************************************************************************)
VARIABLES
    mounted,        \* the component is mounted
    isOpen,         \* the isOpen prop of the last render
    itinerary,      \* the itinerary prop of the last render
    windowL,        \* window.L is defined
    leafletScript,  \* the script element this component appended
    leafletLoaded,  \* leafletLoaded.current
    mapInstance,    \* mapInstance.current
    liveMaps,       \* the maps created and not yet removed
    timers,         \* the settle timers that are pending
    error,          \* the error state
    mapLoaded,      \* the mapLoaded state
    mapContainer,   \* mapContainer.current is an element
    dirty,          \* a state update awaits its render
    cancelled       \* history: what became of attempts whose dialog was
                    \* hidden or torn down while their timer was pending

\* downloadItineraryAsPdf of the useItinerary hook.
VARIABLES
    exportPc,       \* where a call of downloadItineraryAsPdf stands
    canvas,         \* the canvas html2canvas resolved with
    pdfPages,       \* the vertical position of the image on each page
    pdfSaved,       \* pdf.save has been called
    exportResult,   \* what the call returned
    sonner,         \* the last sonnerToast shown
    ownerMounted    \* the component that uses the hook is mounted

\* The Weather widget.
VARIABLES
    weatherLocation,  \* the location prop of the last render
    weatherLoading,   \* the loading state
    weatherError,     \* the error state
    weather,          \* the weather state
    requests,         \* the fetches that have not settled
    issued            \* the number of fetches started

\* fetchItineraryById of the useItinerary hook.
VARIABLES
    user,             \* a user is signed in
    storedActivities, \* the rows of itinerary_activities
    fetchPc,          \* where a call of fetchItineraryById stands
    fetchId,          \* the id the call was given
    activitiesData,   \* the rows the activities query answered with
    hookLoading,      \* the loading state of the hook
    hookError,        \* the error state of the hook
    hookToast,        \* the last toast of the hook
    fetchResult       \* what the call returned

\* The stored itineraries and the calls of the useItinerary hook that change
\* them.
VARIABLES
    itineraries,        \* the itineraries state of the hook
    storedItineraries,  \* the rows of user_itineraries, latest update first
    deleteCalls,        \* the calls of deleteItinerary that are pending
    deleteResults,      \* history: what the calls of deleteItinerary returned
    deleteIssued,       \* the number of calls of deleteItinerary
    savePc,             \* where a call of saveItinerary or updateItinerary stands
    saveArgs,           \* the arguments of that call
    storedBefore,       \* history: the stored data when the call was made
    saveResult          \* what the call returned

\* The variables of the map dialog.
mapVars ==
    <<mounted, isOpen, itinerary, windowL, leafletScript, leafletLoaded,
      mapInstance, liveMaps, timers, error, mapLoaded, mapContainer, dirty,
      cancelled>>

\* The variables of the document export.
exportVars ==
    <<exportPc, canvas, pdfPages, pdfSaved, exportResult, sonner,
      ownerMounted>>

\* The variables of the weather widget.
weatherVars ==
    <<weatherLocation, weatherLoading, weatherError, weather, requests,
      issued>>

\* The variables of fetchItineraryById.
fetchVars ==
    <<user, storedActivities, fetchPc, fetchId, activitiesData, hookLoading,
      hookError, hookToast, fetchResult>>

\* The variables of the stored itineraries and their calls.
storeVars ==
    <<itineraries, storedItineraries, deleteCalls, deleteResults,
      deleteIssued, savePc, saveArgs, storedBefore, saveResult>>

\* The variables outside the map dialog.
otherVars ==
    <<exportVars, weatherVars, fetchVars, storeVars>>

\* The variables outside the document export.
notExportVars ==
    <<mapVars, weatherVars, fetchVars, storeVars>>

\* The variables outside the weather widget.
notWeatherVars ==
    <<mapVars, exportVars, fetchVars, storeVars>>

\* The variables outside fetchItineraryById.
notFetchVars ==
    <<mapVars, exportVars, weatherVars, storeVars>>

\* The variables outside the hook.
notHookVars ==
    <<mapVars, exportVars, weatherVars>>

vars ==
    <<mapVars, otherVars>>

\* No canvas yet.
NoCanvas ==
    [width |-> 0, height |-> 0]

\* No export has been asked for.
ExportIdle ==
    /\ exportPc = "idle"
    /\ canvas = NoCanvas
    /\ pdfPages = <<>>
    /\ pdfSaved = FALSE
    /\ exportResult = "none"
    /\ sonner = "none"
    /\ ownerMounted = TRUE

\* The weather state before any response: null.  The fields id and
\* location of a reading are history: the condition code of the response it
\* was built from (-1 for none) and the location of the request.
NoWeather ==
    [condition |-> <<>>, temperature |-> 0, humidity |-> 0,
     windSpeed |-> 0, icon |-> "null", id |-> -1, location |-> "null"]

\* The error state of the widget: null.
NoWeatherError ==
    [shown |-> FALSE, location |-> "null"]

\* The weather widget is not mounted.
WeatherIdle ==
    /\ weatherLocation = "null"
    /\ weatherLoading = TRUE
    /\ weatherError = NoWeatherError
    /\ weather = NoWeather
    /\ requests = {}
    /\ issued = 0

\* What fetchItineraryById has returned: nothing yet.
NoResult ==
    [returned |-> "none", days |-> <<>>]

\* The hook once its mount effect has settled (loading is false again):
\* fetchItineraryById has not been called, nobody is signed in and the
\* table is empty.
FetchIdle ==
    /\ user = FALSE
    /\ storedActivities = {}
    /\ fetchPc = "idle"
    /\ fetchId = "none"
    /\ activitiesData = <<>>
    /\ hookLoading = FALSE
    /\ hookError = "null"
    /\ hookToast = "none"
    /\ fetchResult = NoResult

\* The arguments of a call of saveItinerary or updateItinerary: none yet.
NoArgs ==
    [op |-> "none", id |-> "none", title |-> "none", itinerary |-> <<>>]

\* The stored data: the rows of user_itineraries and of
\* itinerary_activities.
Snapshot(stored, activities) ==
    [itineraries |-> stored, activities |-> activities]

\* Nothing is stored, and no call that changes the stored data has been
\* made.
StoreIdle ==
    /\ itineraries = <<>>
    /\ storedItineraries = <<>>
    /\ deleteCalls = {}
    /\ deleteResults = {}
    /\ deleteIssued = 0
    /\ savePc = "idle"
    /\ saveArgs = NoArgs
    /\ storedBefore = Snapshot(<<>>, {})
    /\ saveResult = "none"

\* The components outside the map dialog are at rest.
OthersIdle ==
    /\ ExportIdle
    /\ WeatherIdle
    /\ FetchIdle
    /\ StoreIdle

\* mapInstance.current = null.  The field itinerary of a map is history:
\* the itinerary its markers were made from.
NoMap ==
    [id |-> 0, markers |-> <<>>, coordinates |-> <<>>, view |-> "default",
     itinerary |-> <<>>]

\* The identity of the object L.map returns: distinct from every live map,
\* the one about to be removed included.
NewMapId(live) ==
    CHOOSE n \in 1..(Cardinality(live) + 1) :
        n \notin live /\ \A m \in 1..(n - 1) : m \in live

\* The timer an effect run starts; its callback closes over the itinerary
\* of that render.  hidden records that the dialog was hidden or torn down
\* while the timer was pending.
Timer(itin) ==
    [itinerary |-> itin, hidden |-> FALSE]

\* History only: mark the pending timers when the dialog is hidden or the
\* component torn down.
MarkHidden(pending, hide) ==
    IF hide THEN {[t EXCEPT !.hidden = TRUE] : t \in pending} ELSE pending

\* loadScript: the script element is appended only when window.L is not
\* defined; leafletLoaded.current is set by its onload handler alone.
loadScript(L) ==
    IF ~L THEN "loading" ELSE "absent"

\* Variant of ClearTimeout that leaves the timer pending.
ClearNothing(pending) ==
    pending

\* The cleanup of the init effect: clearTimeout(timeoutId).
ClearTimeout(pending) ==
    {}

\* locations is a new array at every render, so the dependency list of the
\* init effect never compares equal to the previous one.
InitDepsChanged(prevOpen, open, prevItin, itin) ==
    prevOpen # open \/ prevItin # itin \/ TRUE

\* The guard of the init effect.
InitEffectRuns(open, loaded) ==
    ~(~open \/ ~loaded)

\* Variant of DisposeExisting that removes nothing.
DisposeNothing(live, instance) ==
    live

\* "Cleanup existing map if there is one", in the timer callback: the live
\* maps afterwards.
DisposeExisting(live, instance) ==
    IF instance # NoMap THEN live \ {instance.id} ELSE live

\* Variant of CloseEffect that removes nothing.
CloseEffectKeeps(open, live, instance) ==
    live

\* The effect "Cleanup when dialog closes": the live maps afterwards.
CloseEffect(open, live, instance) ==
    IF ~open /\ instance # NoMap THEN live \ {instance.id} ELSE live

\* The same effect: mapInstance.current afterwards.
CloseEffectRef(open, instance) ==
    IF ~open /\ instance # NoMap THEN NoMap ELSE instance

\* The cleanup "Cleanup map on unmount": the live maps afterwards.
UnmountCleanup(live, instance) ==
    IF instance # NoMap THEN live \ {instance.id} ELSE live

\* The state after the first render and its effects: the load effect has
\* run, the init effect has returned at its guard (leafletLoaded.current is
\* still false), and there is no map.
Init ==
    /\ mounted = TRUE
    /\ isOpen \in BOOLEAN
    /\ itinerary \in Itineraries
    /\ windowL \in BOOLEAN
    /\ leafletScript = loadScript(windowL)
    /\ leafletLoaded = FALSE
    /\ mapInstance = NoMap
    /\ liveMaps = {}
    /\ timers = {}
    /\ error = "null"
    /\ mapLoaded = FALSE
    /\ mapContainer = isOpen
    /\ dirty = FALSE
    /\ cancelled = "none"
    /\ OthersIdle

\* One render of the component with props (open, itin), its commit and its
\* effects: the container is there when the dialog is open and the error
\* branch is not rendered; the cleanup of the init effect, then the init
\* effect, then the close effect when isOpen changed.
Render(open, itin) ==
    /\ mounted
    /\ LET changed == InitDepsChanged(isOpen, open, itinerary, itin)
           hide == isOpen /\ ~open
           cleared == IF changed
                      THEN ClearTimeout(MarkHidden(timers, hide))
                      ELSE MarkHidden(timers, hide)
           runs == changed /\ InitEffectRuns(open, leafletLoaded)
       IN  /\ isOpen' = open
           /\ itinerary' = itin
           /\ mapContainer' = (open /\ error = "null")
           /\ timers' = IF runs THEN cleared \cup {Timer(itin)} ELSE cleared
           /\ error' = IF runs THEN "null" ELSE error
           /\ dirty' = (runs /\ error # "null")
           /\ liveMaps' = IF open # isOpen
                          THEN CloseEffect(open, liveMaps, mapInstance)
                          ELSE liveMaps
           /\ mapInstance' = IF open # isOpen
                             THEN CloseEffectRef(open, mapInstance)
                             ELSE mapInstance
           /\ cancelled' = IF hide /\ timers # {} /\ cancelled = "none"
                           THEN "cancelled" ELSE cancelled
    /\ UNCHANGED <<mounted, windowL, leafletScript, leafletLoaded, mapLoaded>>
    /\ UNCHANGED otherVars

\* The parent shows the dialog.
Open ==
    /\ ~isOpen
    /\ Render(TRUE, itinerary)

\* The parent hides the dialog.
Close ==
    /\ isOpen
    /\ Render(FALSE, itinerary)

\* The parent renders again with the same props.
Rerender ==
    Render(isOpen, itinerary)

\* The parent hands over another itinerary.
SetItinerary(itin) ==
    /\ itin # itinerary
    /\ Render(isOpen, itin)

\* React renders the component after setError or setMapLoaded changed its
\* state.
StateRerender ==
    /\ dirty
    /\ Render(isOpen, itinerary)

\* The callback of the settle timer.
TimerFire(t) ==
    /\ t \in timers
    /\ timers' = timers \ {t}
    /\ cancelled' = IF t.hidden THEN "ran" ELSE cancelled
    /\ IF ~mapContainer
       THEN /\ error' = IF mounted THEN "Map container not found" ELSE error
            /\ dirty' = (dirty \/ error' # error)
            /\ UNCHANGED <<mapInstance, liveMaps, mapLoaded>>
       ELSE \E rnds \in [1..NumFallback(t.itinerary) ->
                            MathRandom \X MathRandom] :
              LET loop == MarkerLoop(Traversal(t.itinerary), rnds,
                              [markers |-> <<>>, coordinates |-> <<>>,
                               threw |-> FALSE])
                  id == NewMapId(liveMaps)
              IN  /\ liveMaps' =
                         DisposeExisting(liveMaps, mapInstance) \cup {id}
                  /\ mapInstance' =
                         [id |-> id,
                          itinerary |-> t.itinerary,
                          markers |-> loop.markers,
                          coordinates |-> loop.coordinates,
                          view |-> IF loop.threw THEN "default"
                                   ELSE FitBounds(loop.markers)]
                  /\ error' = IF loop.threw THEN "Could not load the map"
                              ELSE error
                  /\ mapLoaded' = IF loop.threw THEN mapLoaded ELSE TRUE
                  /\ dirty' = (dirty \/ error' # error
                                     \/ mapLoaded' # mapLoaded)
    /\ UNCHANGED <<mounted, isOpen, itinerary, windowL, leafletScript,
                   leafletLoaded, mapContainer>>
    /\ UNCHANGED otherVars

\* script.onload.
ScriptLoaded ==
    /\ leafletScript = "loading"
    /\ leafletScript' = "loaded"
    /\ windowL' = TRUE
    /\ leafletLoaded' = TRUE
    /\ UNCHANGED <<mounted, isOpen, itinerary, mapInstance, liveMaps, timers,
                   error, mapLoaded, mapContainer, dirty, cancelled>>
    /\ UNCHANGED otherVars

\* The script fails to load; no handler is attached for that.
ScriptFailed ==
    /\ leafletScript = "loading"
    /\ leafletScript' = "failed"
    /\ UNCHANGED <<mounted, isOpen, itinerary, windowL, leafletLoaded,
                   mapInstance, liveMaps, timers, error, mapLoaded,
                   mapContainer, dirty, cancelled>>
    /\ UNCHANGED otherVars

\* The component is unmounted: the cleanups of the unmount effect and of
\* the init effect run.
Unmount ==
    /\ mounted
    /\ mounted' = FALSE
    /\ timers' = ClearTimeout(MarkHidden(timers, TRUE))
    /\ liveMaps' = UnmountCleanup(liveMaps, mapInstance)
    /\ mapInstance' = NoMap
    /\ mapContainer' = FALSE
    /\ dirty' = FALSE
    /\ cancelled' = IF timers # {} /\ cancelled = "none"
                    THEN "cancelled" ELSE cancelled
    /\ UNCHANGED <<isOpen, itinerary, windowL, leafletScript, leafletLoaded,
                   error, mapLoaded>>
    /\ UNCHANGED otherVars

Next ==
    \/ Open
    \/ Close
    \/ Rerender
    \/ \E itin \in Itineraries : SetItinerary(itin)
    \/ StateRerender
    \/ \E t \in timers : TimerFire(t)
    \/ ScriptLoaded
    \/ ScriptFailed
    \/ Unmount

Spec ==
    Init /\ [][Next]_vars

\* The event loop runs a pending render and a due timer, and a script
\* request ends one way or the other; nothing obliges the parent to act.
FairSpec ==
    /\ Spec
    /\ WF_vars(StateRerender)
    /\ WF_vars(\E t \in timers : TimerFire(t))
    /\ WF_vars(ScriptLoaded \/ ScriptFailed)

(***************************************************************************)
(* One render pass over every enumerated itinerary                         *)
(***************************************************************************)
\* The dialog is open, Leaflet has loaded and the init effect has started
\* the settle timer for the itinerary.
RenderInit ==
    /\ mounted = TRUE
    /\ isOpen = TRUE
    /\ itinerary \in AllItineraries
    /\ windowL = TRUE
    /\ leafletScript = "loaded"
    /\ leafletLoaded = TRUE
    /\ mapInstance = NoMap
    /\ liveMaps = {}
    /\ timers = {Timer(itinerary)}
    /\ error = "null"
    /\ mapLoaded = FALSE
    /\ mapContainer = TRUE
    /\ dirty = FALSE
    /\ cancelled = "none"
    /\ OthersIdle

RenderNext ==
    \E t \in timers : TimerFire(t)

RenderSpec ==
    RenderInit /\ [][RenderNext]_vars

(***************************************************************************)
(* The document export (downloadItineraryAsPdf)                            *)
(***************************************************************************)
\* Greatest height of a captured canvas, in pixels.
MaxCanvasHeight == 1200

\* Widths of a captured canvas, in pixels.
CanvasWidths == {105, 210, 420}

\* The canvases html2canvas resolves with.
Canvases ==
    [width : CanvasWidths, height : 1..MaxCanvasHeight]

\* A4 width in mm.
imgWidth == 210

\* The page height the code uses, in mm.
pageHeight == 295

\* The starting position of the image on the first page, in mm.
StartPosition == 30

\* imgHeight = canvas.height * imgWidth / canvas.width, times canvas.width:
\* heights are kept as multiples of 1 / canvas.width mm, so that the
\* division is exact.
ScaledImgHeight(c) ==
    c.height * imgWidth

\* Variant of LoopContinues that also runs the loop at heightLeft = 0.
LoopContinuesAtZero(heightLeft) ==
    heightLeft >= 0

\* The condition of the while loop.
LoopContinues(heightLeft) ==
    heightLeft > 0

\* The position handed to addImage on an added page: position is reset to
\* 0 and pageHeight - 30 is subtracted.
AddedPagePosition ==
    0 - (pageHeight - 30)

\* The while loop: every turn adds a page with the image at
\* AddedPagePosition and takes pageHeight off heightLeft (scaled by the
\* canvas width).
RECURSIVE PageLoop(_, _, _)
PageLoop(heightLeft, width, pages) ==
    IF LoopContinues(heightLeft)
    THEN PageLoop(heightLeft - pageHeight * width, width,
                  Append(pages, AddedPagePosition))
    ELSE pages

\* The positions of the image on the pages of the document: the first page
\* at StartPosition, then the loop.
Paginate(c) ==
    PageLoop(ScaledImgHeight(c) - (pageHeight - StartPosition) * c.width,
             c.width, <<StartPosition>>)

\* The map dialog at rest: mounted, hidden, no script loaded.
MapIdle ==
    /\ mounted = TRUE
    /\ isOpen = FALSE
    /\ itinerary = <<>>
    /\ windowL = FALSE
    /\ leafletScript = loadScript(FALSE)
    /\ leafletLoaded = FALSE
    /\ mapInstance = NoMap
    /\ liveMaps = {}
    /\ timers = {}
    /\ error = "null"
    /\ mapLoaded = FALSE
    /\ mapContainer = FALSE
    /\ dirty = FALSE
    /\ cancelled = "none"

\* Variant of CatchBlock that lets the error through to the caller.
CatchRethrows ==
    [sonner |-> "error", exportResult |-> "threw"]

\* The catch block: the error toast, and false is returned.
CatchBlock ==
    [sonner |-> "error", exportResult |-> "false"]

\* downloadItineraryAsPdf up to its await: the loading toast, the element
\* lookup (which throws into the catch when nothing is found) and the call
\* of html2canvas.
StartDownload(found) ==
    /\ exportPc = "idle"
    /\ IF found
       THEN /\ exportPc' = "capturing"
            /\ sonner' = "loading"
            /\ exportResult' = exportResult
       ELSE /\ exportPc' = "done"
            /\ sonner' = CatchBlock.sonner
            /\ exportResult' = CatchBlock.exportResult
    /\ UNCHANGED <<canvas, pdfPages, pdfSaved, ownerMounted>>
    /\ UNCHANGED notExportVars

\* html2canvas resolves: the rest of the try block runs, whether or not
\* the calling component is still mounted.
CaptureResolved(c) ==
    /\ exportPc = "capturing"
    /\ exportPc' = "done"
    /\ canvas' = c
    /\ pdfPages' = Paginate(c)
    /\ pdfSaved' = TRUE
    /\ sonner' = "success"
    /\ exportResult' = "true"
    /\ UNCHANGED ownerMounted
    /\ UNCHANGED notExportVars

\* html2canvas rejects: the catch block runs.
CaptureRejected ==
    /\ exportPc = "capturing"
    /\ exportPc' = "done"
    /\ sonner' = CatchBlock.sonner
    /\ exportResult' = CatchBlock.exportResult
    /\ UNCHANGED <<canvas, pdfPages, pdfSaved, ownerMounted>>
    /\ UNCHANGED notExportVars

\* The component that called the hook is unmounted; the hook registers no
\* cleanup for a pending export.
OwnerUnmount ==
    /\ ownerMounted
    /\ ownerMounted' = FALSE
    /\ UNCHANGED <<exportPc, canvas, pdfPages, pdfSaved, exportResult, sonner>>
    /\ UNCHANGED notExportVars

ExportInit ==
    /\ MapIdle
    /\ OthersIdle

ExportNext ==
    \/ \E found \in BOOLEAN : StartDownload(found)
    \/ \E c \in Canvases : CaptureResolved(c)
    \/ CaptureRejected
    \/ OwnerUnmount

ExportSpec ==
    ExportInit /\ [][ExportNext]_vars

(***************************************************************************)
(* The weather widget (Weather.tsx)                                        *)
(***************************************************************************)
\* Greatest number of fetches the widget starts.
MaxRequests == 3

\* Values of the location prop.
WeatherLocations == {"Vashi", "Nerul"}

\* The values of data.weather[0].id that are enumerated: the ends of every
\* range the code tests, and values outside all of them.
WeatherIds ==
    {0, 199, 200, 299, 300, 399, 400, 499, 500, 599, 600, 699, 700, 799,
     800, 801, 804, 900}

\* Variant of getWeatherIcon that takes 300..399 for rain.
getWeatherIconNoDrizzle(weatherId) ==
    IF weatherId >= 200 /\ weatherId < 300 THEN "CloudLightning"
    ELSE IF weatherId >= 300 /\ weatherId < 600 THEN "CloudRain"
    ELSE IF weatherId >= 600 /\ weatherId < 700 THEN "Snowflake"
    ELSE IF weatherId >= 700 /\ weatherId < 800 THEN "CloudFog"
    ELSE IF weatherId = 800 THEN "Sun"
    ELSE IF weatherId > 800 THEN "CloudSun"
    ELSE "Cloud"

\* getWeatherIcon: the icon component of a condition code.
getWeatherIcon(weatherId) ==
    IF weatherId >= 200 /\ weatherId < 300 THEN "CloudLightning"
    ELSE IF weatherId >= 300 /\ weatherId < 400 THEN "CloudDrizzle"
    ELSE IF weatherId >= 500 /\ weatherId < 600 THEN "CloudRain"
    ELSE IF weatherId >= 600 /\ weatherId < 700 THEN "Snowflake"
    ELSE IF weatherId >= 700 /\ weatherId < 800 THEN "CloudFog"
    ELSE IF weatherId = 800 THEN "Sun"
    ELSE IF weatherId > 800 THEN "CloudSun"
    ELSE "Cloud"

\* The payloads of a successful response: a condition code and its
\* description, with main.temp 30.4, main.humidity 70 and wind.speed 5 m/s.
WeatherPayloads ==
    [id : WeatherIds, description : {<<"m", "i", "s", "t">>},
     temp10 : {304}, humidity : {70}, speed : {5}]

\* String.prototype.toUpperCase on one character.
toUpperChar(c) ==
    IF \E i \in 1..Len(LowerCase) : LowerCase[i] = c
    THEN UpperCase[CHOOSE i \in 1..Len(LowerCase) : LowerCase[i] = c]
    ELSE c

\* getWeatherCondition: the description with its first letter capitalized.
getWeatherCondition(weatherId, description) ==
    IF description = <<>>
    THEN <<>>
    ELSE <<toUpperChar(description[1])>> \o Tail(description)

\* Math.round of a non-negative number given in tenths.
RoundTenths(x10) ==
    (x10 + 5) \div 10

\* The WeatherData built from a payload.
WeatherData(data, loc) ==
    [condition |-> getWeatherCondition(data.id, data.description),
     temperature |-> RoundTenths(data.temp10),
     humidity |-> data.humidity,
     windSpeed |-> RoundTenths(data.speed * 36),
     icon |-> getWeatherIcon(data.id),
     id |-> data.id,
     location |-> loc]

\* Variant of DefaultWeather that leaves the humidity at 0.
DefaultWeatherNoHumidity(loc) ==
    [condition |-> <<"U", "n", "k", "n", "o", "w", "n">>, temperature |-> 25, humidity |-> 0,
     windSpeed |-> 10, icon |-> "Cloud", id |-> -1, location |-> loc]

\* The default weather the catch block sets.
DefaultWeather(loc) ==
    [condition |-> <<"U", "n", "k", "n", "o", "w", "n">>, temperature |-> 25, humidity |-> 60,
     windSpeed |-> 10, icon |-> "Cloud", id |-> -1, location |-> loc]

\* The fetch an effect run starts; its closure holds the location of that
\* render.
Request(n, loc) ==
    [n |-> n, location |-> loc]

\* The widget after its first render and effect: loading, with one fetch
\* under way.
WeatherMounted ==
    /\ weatherLocation \in WeatherLocations
    /\ weatherLoading = TRUE
    /\ weatherError = NoWeatherError
    /\ weather = NoWeather
    /\ requests = {Request(1, weatherLocation)}
    /\ issued = 1

\* The location prop changes: the effect runs again (it has no cleanup),
\* resets loading and error and starts another fetch.
ChangeLocation(loc) ==
    /\ issued > 0
    /\ issued < MaxRequests
    /\ loc # weatherLocation
    /\ weatherLocation' = loc
    /\ weatherLoading' = TRUE
    /\ weatherError' = NoWeatherError
    /\ requests' = requests \cup {Request(issued + 1, loc)}
    /\ issued' = issued + 1
    /\ UNCHANGED weather
    /\ UNCHANGED notWeatherVars

\* A response that is ok arrives and its body is read.
FetchSucceeds(r, data) ==
    /\ r \in requests
    /\ requests' = requests \ {r}
    /\ weather' = WeatherData(data, r.location)
    /\ weatherLoading' = FALSE
    /\ UNCHANGED <<weatherLocation, weatherError, issued>>
    /\ UNCHANGED notWeatherVars

\* The fetch rejects, or the response is not ok: the catch block runs.
FetchFails(r) ==
    /\ r \in requests
    /\ requests' = requests \ {r}
    /\ weatherError' = [shown |-> TRUE, location |-> r.location]
    /\ weatherLoading' = FALSE
    /\ weather' = DefaultWeather(r.location)
    /\ UNCHANGED <<weatherLocation, issued>>
    /\ UNCHANGED notWeatherVars

WeatherInit ==
    /\ MapIdle
    /\ ExportIdle
    /\ FetchIdle
    /\ StoreIdle
    /\ WeatherMounted

WeatherNext ==
    \/ \E loc \in WeatherLocations : ChangeLocation(loc)
    \/ \E r \in requests : \E data \in WeatherPayloads : FetchSucceeds(r, data)
    \/ \E r \in requests : FetchFails(r)

WeatherSpec ==
    WeatherInit /\ [][WeatherNext]_vars

(***************************************************************************)
(* Reading an itinerary back (fetchItineraryById)                          *)
(***************************************************************************)
\* Greatest number of rows in the itinerary_activities table.
MaxRows == 3

\* The ids of itineraries.
ItineraryIds == {"a", "b"}

\* The values of the day column: 10 comes after 2 as a number and before
\* it as a string.
StoredDays == {1, 2, 10}

\* The values of the time column, as the store compares them.
StoredTimes == {1, 2}

\* The values of the title column.
StoredTitles == {"x", "y"}

\* The rows of itinerary_activities (the columns location, description,
\* image and category are copied like title).
Rows ==
    [itinerary_id : ItineraryIds, day : StoredDays, time : StoredTimes,
     title : StoredTitles]

\* The tables of at most n rows.
RECURSIVE TablesUpTo(_)
TablesUpTo(n) ==
    IF n = 0
    THEN {{}}
    ELSE LET smaller == TablesUpTo(n - 1)
         IN  smaller \cup {t \cup {r} : t \in smaller, r \in Rows}

\* .order('day', ascending).order('time', ascending): a comes no later than
\* b.
OrderedBefore(a, b) ==
    \/ a.day < b.day
    \/ a.day = b.day /\ a.time <= b.time

\* The answers of the activities query for an id: the rows of that
\* itinerary, each once, ordered by day then time; rows equal in both come
\* in either order.
Answers(table, id) ==
    LET matching == {r \in table : r.itinerary_id = id}
        n == Cardinality(matching)
    IN  {s \in [1..n -> matching] :
            /\ \A i, j \in 1..n : i # j => s[i] # s[j]
            /\ \A i \in 1..(n - 1) : OrderedBefore(s[i], s[i + 1])}

\* The activity pushed for a row.
FormatActivity(row) ==
    [time |-> row.time, title |-> row.title]

\* !days[d] is false: the object days, kept as the sequence of its values
\* in property order, has the key d.
HasDay(days, d) ==
    \E i \in 1..Len(days) : days[i].day = d

\* days[d] = value: the property is replaced or created; integer keys are
\* kept in ascending order by Object.values.
SetDay(days, d, value) ==
    LET Before(e) == e.day < d
        After(e) == e.day > d
    IN  SelectSeq(days, Before) \o <<value>> \o SelectSeq(days, After)

\* days[d].activities.push(activity).
PushActivity(days, d, activity) ==
    [i \in 1..Len(days) |->
        IF days[i].day = d
        THEN [days[i] EXCEPT !.activities = Append(@, activity)]
        ELSE days[i]]

\* Variant of GroupStep that creates the day's entry for every row.
GroupStepAlwaysNew(days, row) ==
    PushActivity(SetDay(days, row.day, [day |-> row.day, activities |-> <<>>]),
                 row.day, FormatActivity(row))

\* The body of the forEach: the day's entry is created when missing, then
\* the activity is pushed.
GroupStep(days, row) ==
    PushActivity(IF HasDay(days, row.day)
                 THEN days
                 ELSE SetDay(days, row.day,
                             [day |-> row.day, activities |-> <<>>]),
                 row.day, FormatActivity(row))

\* (activitiesData || []).forEach(...), from the first row on.
RECURSIVE ForEach(_, _)
ForEach(rows, days) ==
    IF rows = <<>>
    THEN days
    ELSE ForEach(Tail(rows), GroupStep(days, Head(rows)))

\* Insertion of e into a sequence sorted by (a, b) => a.day - b.day, after
\* the elements that compare equal.
RECURSIVE InsertByDay(_, _)
InsertByDay(sorted, e) ==
    IF sorted = <<>>
    THEN <<e>>
    ELSE IF e.day - Head(sorted).day < 0
         THEN <<e>> \o sorted
         ELSE <<Head(sorted)>> \o InsertByDay(Tail(sorted), e)

\* Array.prototype.sort((a, b) => a.day - b.day), which is stable.
RECURSIVE SortByDay(_)
SortByDay(s) ==
    IF s = <<>>
    THEN <<>>
    ELSE InsertByDay(SortByDay(SubSeq(s, 1, Len(s) - 1)), s[Len(s)])

\* formattedItinerary.
FormatItinerary(rows) ==
    SortByDay(ForEach(rows, <<>>))

\* The catch and finally blocks: the error state, the toast, null is
\* returned and loading ends.
FetchCatch ==
    /\ fetchPc' = "done"
    /\ hookError' = "message"
    /\ hookToast' = "destructive"
    /\ hookLoading' = FALSE
    /\ fetchResult' = [returned |-> "null", days |-> <<>>]
    /\ UNCHANGED <<user, storedActivities, fetchId, activitiesData>>
    /\ UNCHANGED notFetchVars

\* fetchItineraryById(id) up to its first await: null at once without a
\* user, else loading starts and the itinerary is asked for.
CallFetch(id) ==
    /\ fetchPc \in {"idle", "done"}
    /\ fetchId' = id
    /\ IF user
       THEN /\ fetchPc' = "awaitItinerary"
            /\ hookLoading' = TRUE
            /\ hookError' = "null"
            /\ fetchResult' = NoResult
       ELSE /\ fetchPc' = "done"
            /\ fetchResult' = [returned |-> "null", days |-> <<>>]
            /\ UNCHANGED <<hookLoading, hookError>>
    /\ activitiesData' = <<>>
    /\ UNCHANGED <<user, storedActivities, hookToast>>
    /\ UNCHANGED notFetchVars

\* The itinerary query answers with a row: the activities are asked for.
ItineraryAnswered ==
    /\ fetchPc = "awaitItinerary"
    /\ fetchPc' = "awaitActivities"
    /\ UNCHANGED <<user, storedActivities, fetchId, activitiesData,
                   hookLoading, hookError, hookToast, fetchResult>>
    /\ UNCHANGED notFetchVars

\* The itinerary query answers with an error (no row of this user).
ItineraryFailed ==
    /\ fetchPc = "awaitItinerary"
    /\ FetchCatch

\* The activities query answers with rows: they are grouped and returned.
ActivitiesAnswered(data) ==
    /\ fetchPc = "awaitActivities"
    /\ fetchPc' = "done"
    /\ activitiesData' = data
    /\ fetchResult' = [returned |-> "value", days |-> FormatItinerary(data)]
    /\ hookLoading' = FALSE
    /\ UNCHANGED <<user, storedActivities, fetchId, hookError, hookToast>>
    /\ UNCHANGED notFetchVars

\* The activities query answers with an error.
ActivitiesFailed ==
    /\ fetchPc = "awaitActivities"
    /\ FetchCatch

FetchInit ==
    /\ MapIdle
    /\ ExportIdle
    /\ WeatherIdle
    /\ StoreIdle
    /\ user \in BOOLEAN
    /\ storedActivities \in TablesUpTo(MaxRows)
    /\ fetchPc = "idle"
    /\ fetchId = "none"
    /\ activitiesData = <<>>
    /\ hookLoading = FALSE
    /\ hookError = "null"
    /\ hookToast = "none"
    /\ fetchResult = NoResult

FetchNext ==
    \/ \E id \in ItineraryIds : CallFetch(id)
    \/ ItineraryAnswered
    \/ ItineraryFailed
    \/ \E data \in Answers(storedActivities, fetchId) : ActivitiesAnswered(data)
    \/ ActivitiesFailed

FetchSpec ==
    FetchInit /\ [][FetchNext]_vars

(***************************************************************************)
(* Deleting an itinerary (deleteItinerary)                                 *)
(***************************************************************************)
\* Greatest number of calls of deleteItinerary.
MaxDeletes == 2

\* The ids of the itineraries of the user.
ListedIds == {"a", "b", "c"}

\* The row of user_itineraries with an id and a title.
ItineraryRow(id, title) ==
    [id |-> id, title |-> title]

\* The contents of user_itineraries: every id at most once.
StoredLists ==
    LET lists(n) == {s \in [1..n -> ListedIds] :
                        \A i, j \in 1..n : i # j => s[i] # s[j]}
    IN  {[i \in 1..Len(s) |-> ItineraryRow(s[i], "t1")] :
            s \in UNION {lists(n) : n \in 0..Cardinality(ListedIds)}}

\* The ids of a list of rows.
IdsOf(list) ==
    {list[i].id : i \in 1..Len(list)}

\* list.filter(item => item.id !== id).
FilterOut(list, id) ==
    LET Keep(item) == item.id # id
    IN  SelectSeq(list, Keep)

\* A pending call of deleteItinerary: deleteItinerary is created anew by
\* every render of the hook, and closes over the itineraries of that
\* render.
DeleteCall(n, id, closure) ==
    [n |-> n, id |-> id, itineraries |-> closure]

\* deleteItinerary(id) up to its await, called on the function of the
\* latest render: false at once without a user, else loading starts and the
\* delete is sent.
CallDelete(id) ==
    /\ deleteIssued < MaxDeletes
    /\ deleteIssued' = deleteIssued + 1
    /\ IF user
       THEN /\ hookLoading' = TRUE
            /\ hookError' = "null"
            /\ deleteCalls' =
                   deleteCalls \cup {DeleteCall(deleteIssued + 1, id,
                                                itineraries)}
            /\ UNCHANGED deleteResults
       ELSE /\ deleteResults' =
                   deleteResults \cup
                       {[n |-> deleteIssued + 1, id |-> id, result |-> FALSE]}
            /\ UNCHANGED <<hookLoading, hookError, deleteCalls>>
    /\ UNCHANGED <<itineraries, storedItineraries, savePc, saveArgs,
                   storedBefore, saveResult>>
    /\ UNCHANGED <<user, storedActivities, fetchPc, fetchId, activitiesData,
                   hookToast, fetchResult>>
    /\ UNCHANGED notHookVars

\* The delete answers without an error: the local list becomes the list of
\* the closure without the id, and true is returned.
DeleteSucceeds(c) ==
    /\ c \in deleteCalls
    /\ deleteCalls' = deleteCalls \ {c}
    /\ storedItineraries' = FilterOut(storedItineraries, c.id)
    /\ itineraries' = FilterOut(c.itineraries, c.id)
    /\ hookToast' = "deleted"
    /\ hookLoading' = FALSE
    /\ deleteResults' =
           deleteResults \cup {[n |-> c.n, id |-> c.id, result |-> TRUE]}
    /\ UNCHANGED <<deleteIssued, savePc, saveArgs, storedBefore, saveResult>>
    /\ UNCHANGED <<user, storedActivities, fetchPc, fetchId, activitiesData,
                   hookError, fetchResult>>
    /\ UNCHANGED notHookVars

\* The delete answers with an error: the catch and finally blocks.
DeleteFails(c) ==
    /\ c \in deleteCalls
    /\ deleteCalls' = deleteCalls \ {c}
    /\ hookError' = "message"
    /\ hookToast' = "destructive"
    /\ hookLoading' = FALSE
    /\ deleteResults' =
           deleteResults \cup {[n |-> c.n, id |-> c.id, result |-> FALSE]}
    /\ UNCHANGED <<itineraries, storedItineraries, deleteIssued, savePc,
                   saveArgs, storedBefore, saveResult>>
    /\ UNCHANGED <<user, storedActivities, fetchPc, fetchId, activitiesData,
                   fetchResult>>
    /\ UNCHANGED notHookVars

\* The hook once its mount effect has settled: the local list is the stored
\* list of the user, or empty when nobody is signed in.
DeleteInit ==
    /\ MapIdle
    /\ ExportIdle
    /\ WeatherIdle
    /\ user \in BOOLEAN
    /\ storedActivities = {}
    /\ fetchPc = "idle"
    /\ fetchId = "none"
    /\ activitiesData = <<>>
    /\ hookLoading = FALSE
    /\ hookError = "null"
    /\ hookToast = "none"
    /\ fetchResult = NoResult
    /\ storedItineraries \in StoredLists
    /\ itineraries = IF user THEN storedItineraries ELSE <<>>
    /\ deleteCalls = {}
    /\ deleteResults = {}
    /\ deleteIssued = 0
    /\ savePc = "idle"
    /\ saveArgs = NoArgs
    /\ storedBefore = Snapshot(<<>>, {})
    /\ saveResult = "none"

DeleteNext ==
    \/ \E id \in ListedIds : CallDelete(id)
    \/ \E c \in deleteCalls : DeleteSucceeds(c)
    \/ \E c \in deleteCalls : DeleteFails(c)

DeleteSpec ==
    DeleteInit /\ [][DeleteNext]_vars

(***************************************************************************)
(* Saving and updating an itinerary (saveItinerary, updateItinerary)       *)
(***************************************************************************)
\* The titles handed to saveItinerary and updateItinerary.
SaveTitles == {"t1", "t2"}

\* The itinerary argument: no day; one day with one activity; two days
\* with three activities.
SavedDays ==
    << <<>>,
       <<[day |-> 1, activities |-> <<[time |-> 1, title |-> "x"]>>]>>,
       <<[day |-> 1, activities |-> <<[time |-> 1, title |-> "x"],
                                      [time |-> 2, title |-> "y"]>>],
         [day |-> 2, activities |-> <<[time |-> 1, title |-> "x"]>>]>> >>

\* day.activities.map(activity => ({itinerary_id, day: day.day, ...})).
RECURSIVE MapActivities(_, _, _)
MapActivities(id, d, activities) ==
    IF activities = <<>>
    THEN <<>>
    ELSE <<[itinerary_id |-> id, day |-> d, time |-> Head(activities).time,
            title |-> Head(activities).title]>>
         \o MapActivities(id, d, Tail(activities))

\* itinerary.flatMap(day => day.activities.map(...)): activitiesData.
RECURSIVE FlatMap(_, _)
FlatMap(id, days) ==
    IF days = <<>>
    THEN <<>>
    ELSE MapActivities(id, Head(days).day, Head(days).activities)
         \o FlatMap(id, Tail(days))

\* from('itinerary_activities').insert(rows): the table afterwards.
InsertActivities(table, rows) ==
    table \cup {rows[i] : i \in 1..Len(rows)}

\* from('itinerary_activities').delete().eq('itinerary_id', id): the table
\* afterwards.
DeleteActivities(table, id) ==
    {r \in table : r.itinerary_id # id}

\* The id the store gives to an inserted itinerary: one that no row has.
NewItineraryId(stored) ==
    CHOOSE id \in ItineraryIds : id \notin IdsOf(stored)

\* from('user_itineraries').insert(data): the table afterwards, the new row
\* being the latest.
InsertItinerary(stored, title) ==
    <<ItineraryRow(NewItineraryId(stored), title)>> \o stored

\* from('user_itineraries').update({...}).eq('id', id): the table
\* afterwards; the row, when there is one, gets the title and becomes the
\* latest (updated_at).
UpdateItineraryRow(stored, id, title) ==
    IF id \in IdsOf(stored)
    THEN <<ItineraryRow(id, title)>> \o FilterOut(stored, id)
    ELSE stored

\* The start of saveItinerary and of updateItinerary: without a user the
\* toast and false; else loading starts and the first request is sent.
StartCall(args, firstPc) ==
    /\ savePc \in {"idle", "done"}
    /\ saveArgs' = args
    /\ storedBefore' = Snapshot(storedItineraries, storedActivities)
    /\ IF user
       THEN /\ savePc' = firstPc
            /\ saveResult' = "none"
            /\ hookLoading' = TRUE
            /\ UNCHANGED hookToast
       ELSE /\ savePc' = "done"
            /\ saveResult' = "false"
            /\ hookToast' = "destructive"
            /\ UNCHANGED hookLoading
    /\ UNCHANGED <<itineraries, storedItineraries, deleteCalls, deleteResults,
                   deleteIssued>>
    /\ UNCHANGED <<user, storedActivities, fetchPc, fetchId, activitiesData,
                   hookError, fetchResult>>
    /\ UNCHANGED notHookVars

\* The catch and finally blocks of saveItinerary and of updateItinerary: the
\* toast, false is returned and loading ends; nothing is taken back.
SaveCatch ==
    /\ savePc' = "done"
    /\ saveResult' = "false"
    /\ hookToast' = "destructive"
    /\ hookLoading' = FALSE
    /\ UNCHANGED <<itineraries, storedItineraries, deleteCalls, deleteResults,
                   deleteIssued, saveArgs, storedBefore>>
    /\ UNCHANGED <<user, storedActivities, fetchPc, fetchId, activitiesData,
                   hookError, fetchResult>>
    /\ UNCHANGED notHookVars

\* One request of the call has been answered without an error and the next
\* one is sent: the stored data afterwards.
StepDone(nextPc, stored, activities) ==
    /\ savePc' = nextPc
    /\ storedItineraries' = stored
    /\ storedActivities' = activities
    /\ UNCHANGED <<itineraries, deleteCalls, deleteResults, deleteIssued,
                   storedBefore, saveResult>>
    /\ UNCHANGED <<user, fetchPc, fetchId, activitiesData, hookToast,
                   fetchResult>>
    /\ UNCHANGED notHookVars

\* await fetchItineraries() and the rest of the try block: the list is read
\* again (on failure the error state is set and the list kept), the toast
\* is shown and true is returned.
RefreshAndReturn(ok, toasted) ==
    /\ savePc' = "done"
    /\ saveResult' = "true"
    /\ itineraries' = IF ok THEN storedItineraries ELSE itineraries
    /\ hookError' = IF ok THEN "null" ELSE "message"
    /\ hookToast' = toasted
    /\ hookLoading' = FALSE
    /\ UNCHANGED <<storedItineraries, deleteCalls, deleteResults,
                   deleteIssued, saveArgs, storedBefore>>
    /\ UNCHANGED <<user, storedActivities, fetchPc, fetchId, activitiesData,
                   fetchResult>>
    /\ UNCHANGED notHookVars

\* saveItinerary(itineraryData, itinerary) up to its first await.
CallSave(title, itin) ==
    /\ IdsOf(storedItineraries) # ItineraryIds
    /\ StartCall([op |-> "save", id |-> "none", title |-> title,
                  itinerary |-> itin], "insertItinerary")

\* The insert of the itinerary row answers with the row.
ItineraryInserted ==
    /\ savePc = "insertItinerary"
    /\ saveArgs' = [saveArgs EXCEPT !.id = NewItineraryId(storedItineraries)]
    /\ hookLoading' = hookLoading
    /\ hookError' = hookError
    /\ StepDone("insertActivities",
                InsertItinerary(storedItineraries, saveArgs.title),
                storedActivities)

\* The insert of the activities answers without an error.
ActivitiesInserted ==
    /\ savePc = "insertActivities"
    /\ saveArgs' = saveArgs
    /\ hookLoading' = TRUE
    /\ hookError' = "null"
    /\ StepDone("refresh", storedItineraries,
                InsertActivities(storedActivities,
                                 FlatMap(saveArgs.id, saveArgs.itinerary)))

\* The list has been read again: saveItinerary returns true.
SaveRefreshed(ok) ==
    /\ savePc = "refresh"
    /\ RefreshAndReturn(ok, "saved")

\* The insert of the itinerary row or of the activities answers with an
\* error.
SaveFails ==
    /\ savePc \in {"insertItinerary", "insertActivities"}
    /\ SaveCatch

\* updateItinerary(id, itineraryData, itinerary) up to its first await.
CallUpdate(id, title, itin) ==
    StartCall([op |-> "update", id |-> id, title |-> title,
               itinerary |-> itin], "updateItinerary")

\* The update of the itinerary row answers without an error.
ItineraryUpdated ==
    /\ savePc = "updateItinerary"
    /\ saveArgs' = saveArgs
    /\ hookLoading' = hookLoading
    /\ hookError' = hookError
    /\ StepDone("deleteActivities",
                UpdateItineraryRow(storedItineraries, saveArgs.id,
                                   saveArgs.title),
                storedActivities)

\* The delete of the existing activities answers without an error.
ActivitiesDeleted ==
    /\ savePc = "deleteActivities"
    /\ saveArgs' = saveArgs
    /\ hookLoading' = hookLoading
    /\ hookError' = hookError
    /\ StepDone("updateInsert", storedItineraries,
                DeleteActivities(storedActivities, saveArgs.id))

\* The insert of the new activities answers without an error.
UpdateActivitiesInserted ==
    /\ savePc = "updateInsert"
    /\ saveArgs' = saveArgs
    /\ hookLoading' = TRUE
    /\ hookError' = "null"
    /\ StepDone("updateRefresh", storedItineraries,
                InsertActivities(storedActivities,
                                 FlatMap(saveArgs.id, saveArgs.itinerary)))

\* The list has been read again: updateItinerary returns true.
UpdateRefreshed(ok) ==
    /\ savePc = "updateRefresh"
    /\ RefreshAndReturn(ok, "updated")

\* The update of the row, the delete of the activities or the insert of the
\* new ones answers with an error.
UpdateFails ==
    /\ savePc \in {"updateItinerary", "deleteActivities", "updateInsert"}
    /\ SaveCatch

\* The hook once its mount effect has settled, with nothing stored or with
\* the itinerary "a" and its three activities.
SaveInit ==
    /\ MapIdle
    /\ ExportIdle
    /\ WeatherIdle
    /\ user \in BOOLEAN
    /\ \/ /\ storedItineraries = <<>>
          /\ storedActivities = {}
       \/ /\ storedItineraries = <<ItineraryRow("a", "t1")>>
          /\ storedActivities = InsertActivities({}, FlatMap("a", SavedDays[3]))
    /\ fetchPc = "idle"
    /\ fetchId = "none"
    /\ activitiesData = <<>>
    /\ hookLoading = FALSE
    /\ hookError = "null"
    /\ hookToast = "none"
    /\ fetchResult = NoResult
    /\ itineraries = IF user THEN storedItineraries ELSE <<>>
    /\ deleteCalls = {}
    /\ deleteResults = {}
    /\ deleteIssued = 0
    /\ savePc = "idle"
    /\ saveArgs = NoArgs
    /\ storedBefore = Snapshot(<<>>, {})
    /\ saveResult = "none"

SaveNext ==
    \/ \E title \in SaveTitles : \E i \in 1..Len(SavedDays) :
          CallSave(title, SavedDays[i])
    \/ ItineraryInserted
    \/ ActivitiesInserted
    \/ \E ok \in BOOLEAN : SaveRefreshed(ok)
    \/ SaveFails
    \/ \E id \in ItineraryIds : \E title \in SaveTitles :
          \E i \in 1..Len(SavedDays) : CallUpdate(id, title, SavedDays[i])
    \/ ItineraryUpdated
    \/ ActivitiesDeleted
    \/ UpdateActivitiesInserted
    \/ \E ok \in BOOLEAN : UpdateRefreshed(ok)
    \/ UpdateFails

SaveSpec ==
    SaveInit /\ [][SaveNext]_vars

(***************************************************************************)
(* Properties of one render pass (RenderSpec)                              *)
(***************************************************************************)
\* The number of activities of an itinerary.
TotalActivities(itin) ==
    Sum([i \in 1..Len(itin) |-> Len(itin[i].activities)])

\* t occurs in s at some offset, ignoring case.
ContainsIgnoringCase(s, t) ==
    \E a \in 0..Len(s) :
        /\ a + Len(t) <= Len(s)
        /\ \A k \in 1..Len(t) : toLowerChar(s[a + k]) = toLowerChar(t[k])

\* The positions of the table keys that match a location by substring in
\* either direction.
MatchingKeys(location) ==
    {i \in 1..Len(locationCoordinates) :
        \/ ContainsIgnoringCase(location, locationCoordinates[i].key)
        \/ ContainsIgnoringCase(locationCoordinates[i].key, location)}

\* The least element of a non-empty set of numbers.
Least(S) ==
    CHOOSE n \in S : \A m \in S : n <= m

\* A string that is empty or holds only spaces.
IsBlank(s) ==
    \A i \in 1..Len(s) : s[i] = " "

\* C1: a render pass creates exactly one marker per activity, in
\* day-then-activity order, each with a coordinate from the exact match,
\* the substring match or the fallback, and the pass raises no error.
C1_OneMarkerPerActivity ==
    mapInstance # NoMap =>
        /\ Len(mapInstance.markers) = TotalActivities(itinerary)
        /\ \A i \in 1..Len(itinerary) :
             \A j \in 1..Len(itinerary[i].activities) :
                LET k == FlatIndex([d \in 1..Len(itinerary) |->
                                       Len(itinerary[d].activities)], i, j)
                IN  /\ k <= Len(mapInstance.markers)
                    /\ mapInstance.markers[k].day = itinerary[i].day
                    /\ mapInstance.markers[k].location =
                           itinerary[i].activities[j].location
                    /\ mapInstance.markers[k].how \in
                           {"exact", "partial", "fallback"}
        /\ error = "null"

\* C2: a location equal to a table key gets that key's literal coordinate;
\* any other location that matches a key by substring, ignoring case, in
\* either direction gets the coordinate of the first such key in table
\* order.
C2_ResolverPrecedence ==
    \A k \in 1..Len(mapInstance.markers) :
        LET m == mapInstance.markers[k]
        IN  /\ m.location \in TableKeys =>
                /\ m.how = "exact"
                /\ \E i \in 1..Len(locationCoordinates) :
                      /\ locationCoordinates[i].key = m.location
                      /\ locationCoordinates[i].value =
                             Coordinate(m.lon, m.lat)
            /\ (m.location \notin TableKeys /\ MatchingKeys(m.location) # {}) =>
                /\ m.how = "partial"
                /\ locationCoordinates[Least(MatchingKeys(m.location))].value =
                       Coordinate(m.lon, m.lat)

\* A pass in which "Nerul Balaji Temple" got its own coordinate and
\* "nerul balaji temple" the coordinate of the earlier key "Nerul".
C2_Witness ==
    /\ Len(mapInstance.markers) = 2
    /\ mapInstance.markers[1].location = LocTemple
    /\ mapInstance.markers[1].lon = 730206
    /\ mapInstance.markers[2].location = LocTempleLower
    /\ mapInstance.markers[2].lon = 730157

\* C3: an activity whose location is empty or only whitespace is resolved
\* by the fallback.
C3_BlankTakesFallback ==
    \A k \in 1..Len(mapInstance.markers) :
        IsBlank(mapInstance.markers[k].location) =>
            mapInstance.markers[k].how = "fallback"

\* C4: a location that matches no table key, exactly or by substring, is
\* resolved to a coordinate within 0.01 degree of the default center on each
\* axis.
C4_UnmatchedNearCenter ==
    \A k \in 1..Len(mapInstance.coordinates) :
        LET location == Traversal(itinerary)[k].activity.location
            c == mapInstance.coordinates[k]
        IN  (location \notin TableKeys /\ MatchingKeys(location) = {}) =>
                /\ c.kind = "coordinate"
                /\ c.lon - DefaultLon \in -100..100
                /\ c.lat - DefaultLat \in -100..100

\* C5: every marker of day d has color palette[(d - 1) mod 7]; day 1 and
\* day 8 both get the first entry.
C5_DayColor ==
    \A k \in 1..Len(mapInstance.markers) :
        LET m == mapInstance.markers[k]
        IN  /\ Len(dayColors) = 7
            /\ m.color = dayColors[((m.day - 1) % 7) + 1]
            /\ m.day \in {1, 8} => m.color = "#3B82F6"

\* A pass with a marker of day 2 and a marker of day 8.
C5_Witness ==
    /\ Len(mapInstance.markers) = 2
    /\ mapInstance.markers[1].day = 2
    /\ mapInstance.markers[1].color = "#10B981"
    /\ mapInstance.markers[2].day = 8
    /\ mapInstance.markers[2].color = "#3B82F6"

\* C6: after a render pass the bounds are fitted if and only if at least
\* one marker was created; an empty itinerary gives no marker and keeps the
\* default view.
C6_FitIffMarkers ==
    mapInstance # NoMap =>
        /\ mapInstance.view = "fitBounds" <=> Len(mapInstance.markers) > 0
        /\ itinerary = <<>> =>
              /\ Len(mapInstance.markers) = 0
              /\ mapInstance.view = "default"

(***************************************************************************)
(* Properties of the life cycle (Spec, FairSpec)                           *)
(***************************************************************************)
\* C7: there is never more than one live map instance, and the live one is
\* the one the handle refers to.
C7_AtMostOneLiveMap ==
    /\ Cardinality(liveMaps) <= 1
    /\ liveMaps = IF mapInstance = NoMap THEN {} ELSE {mapInstance.id}

\* A render attempt that found a live map and replaced it.
C7_Witness ==
    /\ mapInstance.id = 2
    /\ liveMaps = {2}

\* C8: the callback of a timer that was pending when the dialog was hidden
\* or the component torn down never runs.
C8_CancelledNeverRuns ==
    /\ cancelled # "ran"
    /\ \A t \in timers : ~t.hidden

\* An attempt was cancelled, and a later attempt rendered the map.
C8_Witness ==
    /\ cancelled = "cancelled"
    /\ mapInstance # NoMap

\* C9: while the dialog is hidden or the component unmounted, no map
\* instance is live and the handle is cleared.
C9_NoMapWhenHidden ==
    (~isOpen \/ ~mounted) =>
        /\ mapInstance = NoMap
        /\ liveMaps = {}

\* The dialog was hidden after a map had been rendered.
C9_Witness ==
    /\ mounted
    /\ ~isOpen
    /\ mapLoaded
    /\ liveMaps = {}

\* C10: once the dialog is open and the library available, a map instance
\* is eventually created, unless the dialog is hidden or torn down first.
C10_OpenLeadsToMap ==
    (mounted /\ isOpen /\ windowL) ~>
        (mapInstance # NoMap \/ ~isOpen \/ ~mounted)

\* C11: once a render attempt has failed, the error message stays shown, no
\* further attempt is started and no map instance is created.
C11_ErrorIsTerminal ==
    [][(mounted /\ error # "null") =>
          /\ error' = error
          /\ timers' \subseteq timers
          /\ mapInstance' \in {mapInstance, NoMap}]_vars

\* C12: when the script has failed to load and the dialog is open with no
\* render or timer pending, an error message is shown.
C12_LoadFailureShowsError ==
    (leafletScript = "failed" /\ mounted /\ isOpen /\ ~dirty /\ timers = {}) =>
        error # "null"

(***************************************************************************)
(* Properties of the document export (ExportSpec)                          *)
(***************************************************************************)
\* The least n with n * b >= a, for a >= 0 and b > 0.
CeilDiv(a, b) ==
    (a + b - 1) \div b

\* The image positions, in units of 1 / canvas.width mm, that the page with
\* the image at the given position shows: the page shows 0..pageHeight.
VisibleFrom(position, c) ==
    (0 - position) * c.width

VisibleTo(position, c) ==
    (pageHeight - position) * c.width

\* C13: a saved document has 1 page when the scaled image height is at
\* most 265, else 1 + ceil((imgHeight - 265) / 295) pages; height 265 gives
\* 1 page and height 561 gives 3.
C13_PageCount ==
    pdfSaved =>
        /\ Len(pdfPages) =
              IF ScaledImgHeight(canvas) <= 265 * canvas.width
              THEN 1
              ELSE 1 + CeilDiv(ScaledImgHeight(canvas) - 265 * canvas.width,
                               295 * canvas.width)
        /\ canvas = [width |-> 210, height |-> 265] => Len(pdfPages) = 1
        /\ canvas = [width |-> 210, height |-> 561] => Len(pdfPages) = 3

\* A saved document of an image of height 265 + 295 + 1.
C13_Witness ==
    /\ pdfSaved
    /\ canvas = [width |-> 210, height |-> 561]
    /\ Len(pdfPages) = 3

\* C14: on the k-th added page the image is placed at -265 * k.
C14_AddedPageOffset ==
    \A k \in 1..(Len(pdfPages) - 1) : pdfPages[k + 1] = 0 - 265 * k

\* C15: every vertical position of the scaled image is shown by at least
\* one page: the top is shown, and where the part shown by a page ends
\* before the bottom of the image, another page shows on from there.
C15_NoLoss ==
    pdfSaved =>
        /\ \E k \in 1..Len(pdfPages) :
              VisibleFrom(pdfPages[k], canvas) <= 0
        /\ \A k \in 1..Len(pdfPages) :
              \/ VisibleTo(pdfPages[k], canvas) >= ScaledImgHeight(canvas)
              \/ \E j \in 1..Len(pdfPages) :
                    /\ VisibleFrom(pdfPages[j], canvas) <=
                           VisibleTo(pdfPages[k], canvas)
                    /\ VisibleTo(pdfPages[j], canvas) >
                           VisibleTo(pdfPages[k], canvas)

\* C16: once the calling component is unmounted, no page is added and no
\* document is saved.
C16_TeardownCancels ==
    [][~ownerMounted => (pdfPages' = pdfPages /\ pdfSaved' = pdfSaved)]_vars

\* C17: a finished call has returned true or false; true only with the
\* document saved, false with the error toast and nothing saved.
C17_NeverThrows ==
    /\ exportPc = "done" => exportResult \in {"true", "false"}
    /\ exportResult = "true" => pdfSaved
    /\ exportResult = "false" =>
          (~pdfSaved /\ pdfPages = <<>> /\ sonner = "error")

\* A call that failed.
C17_Witness ==
    /\ exportPc = "done"
    /\ exportResult = "false"
    /\ sonner = "error"

(***************************************************************************)
(* Claims about the weather widget (WeatherSpec)                           *)
(***************************************************************************)
\* The icons of the seven categories, in the order thunderstorm, drizzle,
\* rain, snow, atmosphere, clear, clouds.
CategoryIcons ==
    {"CloudLightning", "CloudDrizzle", "CloudRain", "Snowflake", "CloudFog",
     "Sun", "CloudSun"}

\* C18 as stated: every condition code is mapped to one of the seven
\* categories (a reading built from a response shows one of their icons).
C18_EveryCodeInSeven ==
    weather.id # -1 => weather.icon \in CategoryIcons

\* C18 amended: a code in one of the listed ranges is mapped to that
\* range's category, and a code in none of them (below 200, or 400-499) to
\* the default cloud icon, which is none of the seven.
C18_CodeToCategory ==
    weather.id # -1 =>
        /\ (weather.id \in 200..299) = (weather.icon = "CloudLightning")
        /\ (weather.id \in 300..399) = (weather.icon = "CloudDrizzle")
        /\ (weather.id \in 500..599) = (weather.icon = "CloudRain")
        /\ (weather.id \in 600..699) = (weather.icon = "Snowflake")
        /\ (weather.id \in 700..799) = (weather.icon = "CloudFog")
        /\ (weather.id = 800) = (weather.icon = "Sun")
        /\ (weather.id > 800) = (weather.icon = "CloudSun")
        /\ (weather.id < 200 \/ weather.id \in 400..499) =
              (weather.icon = "Cloud")

\* A reading built from a code in none of the ranges.
C18_Witness ==
    /\ weather.id = 400
    /\ weather.icon = "Cloud"
    /\ weather.icon \notin CategoryIcons

\* C19: the step that handles a failed fetch leaves the widget not loading,
\* with an error message shown, and with the placeholder reading (Unknown,
\* 25, 60, 10).
C19_FailureGivesPlaceholder ==
    [][(\E r \in requests : FetchFails(r)) =>
          /\ weatherLoading' = FALSE
          /\ weatherError'.shown
          /\ weather'.condition = <<"U", "n", "k", "n", "o", "w", "n">>
          /\ weather'.temperature = 25
          /\ weather'.humidity = 60
          /\ weather'.windSpeed = 10
          /\ weather' # NoWeather]_vars

\* A failed fetch has been handled.
C19_Witness ==
    /\ weatherError.shown
    /\ ~weatherLoading
    /\ weather.condition = <<"U", "n", "k", "n", "o", "w", "n">>
    /\ weather.temperature = 25
    /\ weather.humidity = 60
    /\ weather.windSpeed = 10

(***************************************************************************)
(* Claims about fetchItineraryById (FetchSpec)                             *)
(***************************************************************************)
\* The activities of the rows of a day, in the order of the rows.
ActivitiesOfDay(rows, d) ==
    LET OfDay(r) == r.day = d
        picked == SelectSeq(rows, OfDay)
    IN  [i \in 1..Len(picked) |->
            [time |-> picked[i].time, title |-> picked[i].title]]

\* C20: the days returned are in ascending order of day, one for every
\* distinct day among the stored activities of the itinerary, and the
\* activities of a day are the stored activities of that day, each once,
\* in the order the store gave them (ascending time).
C20_DaysGrouped ==
    fetchResult.returned = "value" =>
        LET days == fetchResult.days
            stored == {r \in storedActivities : r.itinerary_id = fetchId}
        IN  /\ \A i \in 1..(Len(days) - 1) : days[i].day < days[i + 1].day
            /\ {days[i].day : i \in 1..Len(days)} = {r.day : r \in stored}
            /\ {activitiesData[i] : i \in 1..Len(activitiesData)} = stored
            /\ Len(activitiesData) = Cardinality(stored)
            /\ \A i \in 1..Len(days) :
                  /\ days[i].activities =
                         ActivitiesOfDay(activitiesData, days[i].day)
                  /\ \A k \in 1..(Len(days[i].activities) - 1) :
                         days[i].activities[k].time <=
                             days[i].activities[k + 1].time

\* An itinerary returned with days 2 and 10, the first with two
\* activities.
C20_Witness ==
    /\ fetchResult.returned = "value"
    /\ Len(fetchResult.days) = 2
    /\ fetchResult.days[1].day = 2
    /\ fetchResult.days[2].day = 10
    /\ Len(fetchResult.days[1].activities) = 2

(***************************************************************************)
(* Claims about overlapping requests                                       *)
(***************************************************************************)
\* C21: once the location has changed and no fetch is outstanding, the
\* reading is the one of a response for the current location, and an error
\* message is shown only for a failed fetch of the current location,
\* together with its placeholder.
C21_LatestResponseWins ==
    (issued > 1 /\ requests = {}) =>
        /\ weather.location = weatherLocation
        /\ weatherError.shown =>
              (weatherError.location = weatherLocation /\ weather.id = -1)

\* C22: an id for which deleteItinerary has returned true is not in the
\* local list, whether or not the calls overlapped; and the local list of
\* a signed-in user whose every delete has failed is the stored list.
C22_DeletedStayDeleted ==
    /\ \A r \in deleteResults : r.result => r.id \notin IdsOf(itineraries)
    /\ (user /\ \A r \in deleteResults : ~r.result) =>
          itineraries = storedItineraries

(***************************************************************************)
(* Claims about the stored data (SaveSpec)                                 *)
(***************************************************************************)
\* C23: when saveItinerary or updateItinerary has returned false, the rows
\* of user_itineraries and of itinerary_activities are the ones stored
\* when the call was made.
C23_AllOrNothing ==
    saveResult = "false" =>
        Snapshot(storedItineraries, storedActivities) = storedBefore

(***************************************************************************)
(* Claims about re-renders of the map dialog (Spec)                        *)
(***************************************************************************)
\* C24: while the component stays mounted and open with the same
\* itinerary, a map made from that itinerary is neither replaced nor
\* removed: the instance and its marker positions stay the same.
C24_MapPersists ==
    [][(/\ mounted /\ isOpen /\ mapInstance # NoMap
        /\ mapInstance.itinerary = itinerary
        /\ mounted' /\ isOpen' /\ itinerary' = itinerary) =>
          (/\ mapInstance'.id = mapInstance.id
           /\ mapInstance'.coordinates = mapInstance.coordinates
           /\ mapInstance' = mapInstance)]_vars
====
